---- MODULE Spec2Model ----
(***************************************************************************)
(* Model of src/api/app.py: the DataProcessor session (self.df and         *)
(* self.code_history), its seven operations, ingestion, export, and the    *)
(* Flask routes /upload, /process, /download and /reset that drive the     *)
(* single global processor.                                                *)
(*                                                                         *)
(* Cells are records (Num, Str, NaN, PyNone) so that tables of mixed       *)
(* content stay comparable.  Floating-point numbers are modelled as        *)
(* fixed-point decimals: a numeric cell holds an integer v that stands for *)
(* v / Scale; every division and square root rounds to that resolution,    *)
(* as the float operations round to theirs.                                *)
(***************************************************************************)
EXTENDS Integers, Sequences, FiniteSets, TLC

\* ------------------------------------------------------------------ bounds

\* The session accepts requests while the log holds at most MaxLog entries.
MaxLog == 7

\* The worker threads take at most MaxRequests requests between them.
MaxRequests == 3

\* Resolution of the fixed-point numbers: three decimals.
Scale == 10 * 10 * 10

\* ------------------------------------------------------------------ values

Num(v) == [t |-> "num", v |-> v, s |-> ""]
Str(s) == [t |-> "str", v |-> 0, s |-> s]
NaN == [t |-> "nan", v |-> 0, s |-> ""]
PyNone == [t |-> "none", v |-> 0, s |-> ""]
\* +inf / -inf, the result of a non-zero float divided by zero
Inf(sign) == [t |-> "inf", v |-> sign, s |-> ""]
\* an integer literal n as a number
IntLit(n) == Num(n * Scale)

IsNum(x) == x.t = "num"
IsNaN(x) == x.t = "nan"

Abs(a) == IF a < 0 THEN -a ELSE a

\* a / b rounded to the nearest integer (b > 0)
RDiv(a, b) == IF a >= 0 THEN (2 * a + b) \div (2 * b)
              ELSE -((2 * (-a) + b) \div (2 * b))

RECURSIVE IsqrtIn(_, _, _)
IsqrtIn(n, lo, hi) ==
    IF lo >= hi THEN lo
    ELSE LET mid == (lo + hi + 1) \div 2
         IN IF mid * mid <= n THEN IsqrtIn(n, mid, hi) ELSE IsqrtIn(n, lo, mid - 1)

\* floor of the square root of n (0 <= n < 2^31)
Isqrt(n) == IsqrtIn(n, 0, 46340)

\* ------------------------------------------------------------- sequences

RECURSIVE SumSeq(_)
SumSeq(xs) == IF xs = <<>> THEN 0 ELSE Head(xs) + SumSeq(Tail(xs))

RECURSIVE Insert(_, _)
Insert(x, xs) ==
    IF xs = <<>> THEN <<x>>
    ELSE IF x <= Head(xs) THEN <<x>> \o xs
    ELSE <<Head(xs)>> \o Insert(x, Tail(xs))

RECURSIVE SortAsc(_)
SortAsc(xs) == IF xs = <<>> THEN <<>> ELSE Insert(Head(xs), SortAsc(Tail(xs)))

\* the elements of xs at the positions where mask is TRUE, in order
Keep(xs, mask) ==
    LET F[i \in 0..Len(xs)] ==
            IF i = 0 THEN <<>>
            ELSE IF mask[i] THEN Append(F[i - 1], xs[i]) ELSE F[i - 1]
    IN F[Len(xs)]

\* ---------------------------------------------------------------- tables

\* self.df = None
NoneDF == [isNone |-> TRUE, cols |-> <<>>, rows |-> <<>>]

\* a DataFrame: column labels with dtypes, rows with index labels
DataFrame(cols, rows) == [isNone |-> FALSE, cols |-> cols, rows |-> rows]
Col(name, dtype) == [name |-> name, dtype |-> dtype]
Row(idx, cells) == [idx |-> idx, cells |-> cells]

NRows(t) == Len(t.rows)
NCols(t) == Len(t.cols)

\* df.select_dtypes(include=['number']).columns, as column positions
NumericCols(t) == Keep([i \in 1..NCols(t) |-> i],
                       [i \in 1..NCols(t) |-> t.cols[i].dtype = "num"])

\* df[col] as the sequence of its cells
Column(t, c) == [r \in 1..NRows(t) |-> t.rows[r].cells[c]]

\* the non-absent numbers of a column, as fixed-point integers
Present(cells) ==
    LET kept == Keep(cells, [i \in 1..Len(cells) |-> IsNum(cells[i])])
    IN [i \in 1..Len(kept) |-> kept[i].v]

\* position of the column labelled name, 0 when there is none
ColIndex(t, name) ==
    IF \E i \in 1..NCols(t) : t.cols[i].name = name
    THEN CHOOSE i \in 1..NCols(t) : t.cols[i].name = name
    ELSE 0

\* df[mask]
FilterRows(t, mask) == [t EXCEPT !.rows = Keep(t.rows, mask)]

\* df[col] = cells
SetColumn(t, c, cells) ==
    [t EXCEPT !.rows = [r \in 1..NRows(t) |->
                            [t.rows[r] EXCEPT !.cells[c] = cells[r]]]]

\* -------------------------------------------------------- column statistics

\* Series.mean(): absent values skipped, NaN for an empty sample
Mean(xs) == IF Len(xs) = 0 THEN NaN ELSE Num(RDiv(SumSeq(xs), Len(xs)))

\* sum of squared deviations from the mean, in units of 1/Scale^2
SumSqDev(xs) ==
    LET m == RDiv(SumSeq(xs), Len(xs))
    IN SumSeq([i \in 1..Len(xs) |-> (xs[i] - m) * (xs[i] - m)])

\* Series.var(): sample variance (ddof = 1), NaN below two values
Var(xs) == IF Len(xs) < 2 THEN NaN
           ELSE Num(RDiv(RDiv(SumSqDev(xs), Len(xs) - 1), Scale))

\* Series.std(): sample standard deviation (ddof = 1), NaN below two values
Std(xs) == IF Len(xs) < 2 THEN NaN
           ELSE Num(Isqrt(RDiv(SumSqDev(xs), Len(xs) - 1)))

\* Series.median()
Median(xs) ==
    LET s == SortAsc(xs)
        n == Len(xs)
    IN IF n = 0 THEN NaN
       ELSE IF n % 2 = 1 THEN Num(s[(n + 1) \div 2])
       ELSE Num(RDiv(s[n \div 2] + s[n \div 2 + 1], 2))

\* Series.quantile(qn/qd): linear interpolation between order statistics
Quantile(xs, qn, qd) ==
    LET s == SortAsc(xs)
        n == Len(xs)
        lo == ((n - 1) * qn) \div qd
        rem == ((n - 1) * qn) % qd
    IN IF n = 0 THEN NaN
       ELSE IF rem = 0 THEN Num(s[lo + 1])
       ELSE Num(s[lo + 1] + RDiv(rem * (s[lo + 2] - s[lo + 1]), qd))

\* Series.min() and Series.max()
MinOf(xs) == IF Len(xs) = 0 THEN NaN
             ELSE Num(CHOOSE x \in {xs[i] : i \in 1..Len(xs)} :
                          \A i \in 1..Len(xs) : x <= xs[i])
MaxOf(xs) == IF Len(xs) = 0 THEN NaN
             ELSE Num(CHOOSE x \in {xs[i] : i \in 1..Len(xs)} :
                          \A i \in 1..Len(xs) : x >= xs[i])

\* ------------------------------------------------------ float comparisons

\* a >= b, a <= b, a < b, a > b on floats: False when either side is NaN
GE(a, b) == IsNum(a) /\ IsNum(b) /\ a.v >= b.v
LE(a, b) == IsNum(a) /\ IsNum(b) /\ a.v <= b.v
LT(a, b) == IsNum(a) /\ IsNum(b) /\ a.v < b.v
GT(a, b) == IsNum(a) /\ IsNum(b) /\ a.v > b.v

\* a float divided by a float: NaN for 0/0, +-inf for x/0
FloatDiv(num, den) ==
    IF ~IsNum(num) \/ ~IsNum(den) THEN NaN
    ELSE IF den.v = 0
         THEN (IF num.v = 0 THEN NaN ELSE Inf(IF num.v > 0 THEN 1 ELSE -1))
    ELSE Num(RDiv(num.v * Scale, den.v))

\* ------------------------------------------------- missing-value transforms

\* df.dropna(): the rows without any absent cell
dropna(t) ==
    FilterRows(t, [r \in 1..NRows(t) |->
                      \A c \in 1..NCols(t) : ~IsNaN(t.rows[r].cells[c])])

\* df[numeric_cols].fillna(fills), written back into df; fills[c] is the
\* statistic of column c
FillNumeric(t, fills) ==
    [t EXCEPT !.rows = [r \in 1..NRows(t) |->
        [t.rows[r] EXCEPT !.cells = [c \in 1..NCols(t) |->
            IF t.cols[c].dtype = "num" /\ IsNaN(t.rows[r].cells[c])
            THEN fills[c]
            ELSE t.rows[r].cells[c]]]]]

\* variant of fillna_mean: the rows that hold an absent value are dropped
\* instead of being filled
fillna_mean_dropping(t) == dropna(t)

fillna_mean(t) ==
    FillNumeric(t, [c \in 1..NCols(t) |->
                       IF t.cols[c].dtype = "num" THEN Mean(Present(Column(t, c)))
                       ELSE NaN])
fillna_median(t) ==
    FillNumeric(t, [c \in 1..NCols(t) |->
                       IF t.cols[c].dtype = "num" THEN Median(Present(Column(t, c)))
                       ELSE NaN])

\* df.fillna(value): every absent cell of every column; a numeric column that
\* receives a text value becomes an object column
fillna(t, value) ==
    [t EXCEPT
        !.cols = [c \in 1..NCols(t) |->
            IF /\ t.cols[c].dtype = "num"
               /\ ~IsNum(value)
               /\ \E r \in 1..NRows(t) : IsNaN(t.rows[r].cells[c])
            THEN Col(t.cols[c].name, "obj")
            ELSE t.cols[c]],
        !.rows = [r \in 1..NRows(t) |->
            [t.rows[r] EXCEPT !.cells = [c \in 1..NCols(t) |->
                IF IsNaN(t.rows[r].cells[c]) THEN value ELSE t.rows[r].cells[c]]]]]

\* ------------------------------------------------------ outlier transforms

\* 1.5 in lower_bound = Q1 - 1.5 * IQR, as the fraction IqrFactorNum / 2
IqrFactorNum == 3

\* one pass of the IQR loop body for column c of the current table
IqrStep(t, c) ==
    LET xs == Present(Column(t, c))
        Q1 == Quantile(xs, 1, 4)
        Q3 == Quantile(xs, 3, 4)
        IQR == IF IsNum(Q1) /\ IsNum(Q3) THEN Num(Q3.v - Q1.v) ELSE NaN
        lower_bound == IF IsNum(IQR) THEN Num(Q1.v - RDiv(IqrFactorNum * IQR.v, 2)) ELSE NaN
        upper_bound == IF IsNum(IQR) THEN Num(Q3.v + RDiv(IqrFactorNum * IQR.v, 2)) ELSE NaN
    IN FilterRows(t, [r \in 1..NRows(t) |->
                        /\ GE(t.rows[r].cells[c], lower_bound)
                        /\ LE(t.rows[r].cells[c], upper_bound)])

\* for col in numeric_cols: ... self.df = self.df[...]
RECURSIVE IqrLoop(_, _)
IqrLoop(t, cols) ==
    IF cols = <<>> THEN t ELSE IqrLoop(IqrStep(t, Head(cols)), Tail(cols))

\* abs((x - mean) / std) for one cell
ZScore(x, mean, std) ==
    IF IsNum(x) THEN Num(RDiv(Abs(x.v - mean.v) * Scale, std.v)) ELSE NaN

\* variant of WithinThreshold: a row exactly at the threshold is kept
WithinThresholdInclusive(z, threshold) == LE(z, threshold)

\* z_scores < threshold, the comparison of the code
WithinThreshold(z, threshold) == LT(z, threshold)

\* one pass of the z-score loop body; the comparison with a threshold that is
\* not a number raises TypeError
ZscoreStep(st, c, threshold) ==
    LET t == st.df
        xs == Present(Column(t, c))
        mean == Mean(xs)
        std == Std(xs)
    IN IF st.raised \/ ~GT(std, Num(0)) THEN st
       ELSE IF ~IsNum(threshold) THEN [st EXCEPT !.raised = TRUE]
       ELSE [st EXCEPT !.df = FilterRows(t, [r \in 1..NRows(t) |->
                WithinThreshold(ZScore(t.rows[r].cells[c], mean, std), threshold)])]

RECURSIVE ZscoreLoop(_, _, _)
ZscoreLoop(st, cols, threshold) ==
    IF cols = <<>> THEN st
    ELSE ZscoreLoop(ZscoreStep(st, Head(cols), threshold), Tail(cols), threshold)

\* ------------------------------------------------------------ duplicates

\* variant of drop_duplicates: only the first row that repeats an earlier one
\* is dropped
drop_first_duplicate(t) ==
    LET dup(r) == \E q \in 1..(r - 1) : t.rows[q].cells = t.rows[r].cells
    IN FilterRows(t, [r \in 1..NRows(t) |->
                        ~dup(r) \/ \E p \in 1..(r - 1) : dup(p)])

\* variant of drop_duplicates: of the rows with the same cells the last one is
\* kept
drop_duplicates_keep_last(t) ==
    FilterRows(t, [r \in 1..NRows(t) |->
                      \A q \in (r + 1)..NRows(t) : t.rows[q].cells # t.rows[r].cells])

\* df.drop_duplicates(): a row is kept unless an earlier row has the same cells
drop_duplicates(t) ==
    FilterRows(t, [r \in 1..NRows(t) |->
                      \A q \in 1..(r - 1) : t.rows[q].cells # t.rows[r].cells])

\* ---------------------------------------------------------- standardisation

\* variant of StdZscoreStep: the division is not guarded by std > 0
StdZscoreStepUnguarded(t, c) ==
    LET xs == Present(Column(t, c))
        mean == Mean(xs)
        std == Std(xs)
    IN IF IsNum(std)
       THEN SetColumn(t, c, [r \in 1..NRows(t) |->
                LET x == t.rows[r].cells[c]
                IN IF IsNum(x) THEN FloatDiv(Num(x.v - mean.v), std) ELSE NaN])
       ELSE t

\* one pass of the z-score standardisation loop body
StdZscoreStep(t, c) ==
    LET xs == Present(Column(t, c))
        mean == Mean(xs)
        std == Std(xs)
    IN IF GT(std, Num(0))
       THEN SetColumn(t, c, [r \in 1..NRows(t) |->
                LET x == t.rows[r].cells[c]
                IN IF IsNum(x) THEN Num(RDiv((x.v - mean.v) * Scale, std.v)) ELSE NaN])
       ELSE t

\* one pass of the min-max standardisation loop body
StdMinmaxStep(t, c) ==
    LET xs == Present(Column(t, c))
        min_val == MinOf(xs)
        max_val == MaxOf(xs)
    IN IF GT(max_val, min_val)
       THEN SetColumn(t, c, [r \in 1..NRows(t) |->
                LET x == t.rows[r].cells[c]
                IN IF IsNum(x)
                   THEN Num(RDiv((x.v - min_val.v) * Scale, max_val.v - min_val.v))
                   ELSE NaN])
       ELSE t

RECURSIVE StdZscoreLoop(_, _)
StdZscoreLoop(t, cols) ==
    IF cols = <<>> THEN t ELSE StdZscoreLoop(StdZscoreStep(t, Head(cols)), Tail(cols))

RECURSIVE StdMinmaxLoop(_, _)
StdMinmaxLoop(t, cols) ==
    IF cols = <<>> THEN t ELSE StdMinmaxLoop(StdMinmaxStep(t, Head(cols)), Tail(cols))

\* ------------------------------------------------------------ correlation

\* number of decimals in corr_matrix.round(4)
RoundDigits == 4

\* x.round(digits) for a float x
Round(x, digits) ==
    IF IsNum(x)
    THEN LET p == 10 ^ digits IN Num(RDiv(RDiv(x.v * p, Scale) * Scale, p))
    ELSE x

\* Pearson correlation of two columns over the rows where both are present;
\* NaN when no variance is left on either side
Pearson(cx, cy) ==
    LET both == [i \in 1..Len(cx) |-> IsNum(cx[i]) /\ IsNum(cy[i])]
        xs == Present(Keep(cx, both))
        ys == Present(Keep(cy, both))
        n == Len(xs)
        mx == RDiv(SumSeq(xs), n)
        my == RDiv(SumSeq(ys), n)
        sxy == SumSeq([i \in 1..n |-> (xs[i] - mx) * (ys[i] - my)])
        qx == Isqrt(SumSqDev(xs))
        qy == Isqrt(SumSqDev(ys))
        r == RDiv(RDiv(sxy * 10, qx) * (Scale \div 10), qy)
    IN IF n = 0 THEN NaN
       ELSE IF qx = 0 \/ qy = 0 THEN NaN
       ELSE IF r > Scale THEN Num(Scale)
       ELSE IF r < -Scale THEN Num(-Scale)
       ELSE Num(r)

\* df[numeric_cols].corr().round(4): labelled by the numeric columns on both axes
corr_matrix(t) ==
    LET nc == NumericCols(t)
    IN DataFrame(
        [j \in 1..Len(nc) |-> Col(t.cols[nc[j]].name, "num")],
        [i \in 1..Len(nc) |->
            Row(t.cols[nc[i]].name,
                [j \in 1..Len(nc) |->
                    Round(Pearson(Column(t, nc[i]), Column(t, nc[j])), RoundDigits)])])

\* ------------------------------------------------------------- chi-square

\* the text values of the uploaded workbooks and of the fill value, in
\* lexicographic order (pandas sorts the labels of a cross-tabulation)
TextOrder == <<"p", "q", "x", "y">>

TextRank(s) == CHOOSE i \in 1..Len(TextOrder) : TextOrder[i] = s

\* label order of a cross-tabulation: numbers ascending, then text ascending
Before(a, b) ==
    IF IsNum(a) /\ IsNum(b) THEN a.v < b.v
    ELSE IF IsNum(a) THEN TRUE
    ELSE IF IsNum(b) THEN FALSE
    ELSE TextRank(a.s) < TextRank(b.s)

RECURSIVE SortValues(_)
SortValues(S) ==
    IF S = {} THEN <<>>
    ELSE LET m == CHOOSE x \in S : \A y \in S \ {x} : Before(x, y)
         IN <<m>> \o SortValues(S \ {m})

\* pd.crosstab(df[c1], df[c2]): joint frequencies over the rows where both
\* cells are present, labels sorted on both axes
crosstab(t, c1, c2) ==
    LET used == {r \in 1..NRows(t) :
                    ~IsNaN(t.rows[r].cells[c1]) /\ ~IsNaN(t.rows[r].cells[c2])}
        rlabels == SortValues({t.rows[r].cells[c1] : r \in used})
        clabels == SortValues({t.rows[r].cells[c2] : r \in used})
    IN DataFrame(
        [j \in 1..Len(clabels) |-> Col(clabels[j], "num")],
        [i \in 1..Len(rlabels) |->
            Row(rlabels[i],
                [j \in 1..Len(clabels) |->
                    IntLit(Cardinality({r \in used :
                        /\ t.rows[r].cells[c1] = rlabels[i]
                        /\ t.rows[r].cells[c2] = clabels[j]}))])])

\* the chi-square statistic of a contingency table, cells of expected
\* frequency zero skipped
ChiSquare(ct) ==
    LET obs(i, j) == ct.rows[i].cells[j].v \div Scale
        row_total(i) == SumSeq([j \in 1..NCols(ct) |-> obs(i, j)])
        col_total(j) == SumSeq([i \in 1..NRows(ct) |-> obs(i, j)])
        total == SumSeq([i \in 1..NRows(ct) |-> row_total(i)])
        expected(i, j) == RDiv(row_total(i) * col_total(j) * Scale, total)
        term(i, j) ==
            IF expected(i, j) > 0
            THEN RDiv((obs(i, j) * Scale - expected(i, j))
                        * (obs(i, j) * Scale - expected(i, j)), expected(i, j))
            ELSE 0
    IN Num(SumSeq([i \in 1..NRows(ct) |->
                SumSeq([j \in 1..NCols(ct) |-> term(i, j)])]))

\* ------------------------------------------------------------------ t-test

\* pooled_var = ((n1-1)*var1 + (n2-1)*var2) / (n1+n2-2)
PooledVar(xs, ys) ==
    LET var1 == Var(xs)
        var2 == Var(ys)
    IN IF IsNum(var1) /\ IsNum(var2)
       THEN Num(RDiv((Len(xs) - 1) * var1.v + (Len(ys) - 1) * var2.v,
                     Len(xs) + Len(ys) - 2))
       ELSE NaN

\* t_stat of the two-sample test (n1 > 0 and n2 > 0)
TwoSampleT(xs, ys) ==
    LET mean1 == Mean(xs)
        mean2 == Mean(ys)
        pooled_var == PooledVar(xs, ys)
        n1 == Len(xs)
        n2 == Len(ys)
        root == IF IsNum(pooled_var)
                THEN Num(Isqrt(RDiv(pooled_var.v * Scale * (n1 + n2), n1 * n2)))
                ELSE NaN
    IN FloatDiv(Num(mean1.v - mean2.v), root)

\* t_stat of the one-sample test against value
OneSampleT(xs, value) ==
    LET mean == Mean(xs)
        std == Std(xs)
        n == Len(xs)
        se == FloatDiv(std, Num(Isqrt(n * Scale * Scale)))
    IN IF IsNum(mean) THEN FloatDiv(Num(mean.v - value.v), se) ELSE NaN

\* ------------------------------------------------------- the operation log

\* one element of self.code_history: the import line, a "# ..." label or a
\* code fragment, with the values interpolated into its text
Entry(kind, op, method, a1, a2) ==
    [kind |-> kind, op |-> op, method |-> method, a1 |-> a1, a2 |-> a2]

ImportLine == Entry("import", "load", "", PyNone, PyNone)
Label(op, method) == Entry("label", op, method, PyNone, PyNone)
Fragment(op, method, a1, a2) == Entry("code", op, method, a1, a2)
\* the empty string returned as code by a failed call
NoCode == Entry("none", "", "", PyNone, PyNone)

\* the three lines written by a successful load
LoadPreamble(filename) ==
    << ImportLine,
       Label("load", ""),
       Fragment("load", "", Str(filename.stem), Str(filename.suffix)) >>

\* ------------------------------------------------------------ DataProcessor

\* DataProcessor(): no table, empty log
NewProcessor == [df |-> NoneDF, code_history |-> <<>>]

\* what a method returns, with the processor it leaves behind; can_download is
\* the fourth element of the returned tuple, and for the methods that return
\* three elements the value the caller's can_download keeps, True
Result(self, success, message, code, can_download) ==
    [self |-> self, success |-> success, message |-> message, code |-> code,
     can_download |-> can_download, stat |-> NaN]   \* stat: the statistic in the message

\* the except clause of a method returning three elements: the state is
\* whatever the try block left
Failed(self, message) == Result(self, FALSE, message, NoCode, TRUE)

\* a failure return of a method returning four elements
Failed4(self, message) == Result(self, FALSE, message, NoCode, FALSE)

\* variant of AppendEntry: the log is assigned the new entry instead of
\* being appended to
AssignEntry(history, label, code) == <<label, code>>

\* self.code_history.append(label); self.code_history.append(code)
AppendEntry(history, label, code) == Append(Append(history, label), code)

\* success of a transform: the new table, and the entry appended to the log
Done(self, df, label, code, message, can_download) ==
    Result([df |-> df, code_history |-> AppendEntry(self.code_history, label, code)],
           TRUE, message, code, can_download)

\* the branch where neither if nor elif bound `code`: the label is appended,
\* then reading `code` raises UnboundLocalError, caught by the except clause
UnboundCode(self, label, message) ==
    Failed([self EXCEPT !.code_history = Append(self.code_history, label)], message)

\* an uploaded data URL: a workbook, bytes that are no workbook, or text that
\* is no data URL at all
Workbook(table) == [kind |-> "workbook", table |-> table]
NotWorkbook == [kind |-> "not_workbook", table |-> NoneDF]
NotDataUrl == [kind |-> "not_data_url", table |-> NoneDF]

\* a filename, split into its stem and the suffix that endswith() inspects
Filename(stem, suffix) == [stem |-> stem, suffix |-> suffix]

\* filename.endswith(ext)
EndsWith(filename, ext) == filename.suffix = ext

\* variant of load_data_from_base64: the session is cleared before the file
\* is decoded and parsed
load_clearing_first(self, file_content, filename) ==
    IF file_content.kind = "not_data_url"
    THEN Failed([df |-> NoneDF, code_history |-> <<>>], "load_failed")
    ELSE IF EndsWith(filename, ".xlsx") \/ EndsWith(filename, ".xls")
    THEN IF file_content.kind = "workbook"
         THEN Result([df |-> file_content.table,
                      code_history |-> LoadPreamble(filename)],
                     TRUE, "loaded", NoCode, TRUE)
         ELSE Failed([df |-> NoneDF, code_history |-> <<>>], "load_failed")
    ELSE Failed([df |-> NoneDF, code_history |-> <<>>], "unsupported_format")

\* variant of load_data_from_base64: the load statement is appended to the
\* log that is there
load_appending(self, file_content, filename) ==
    IF file_content.kind = "not_data_url"
    THEN Failed(self, "load_failed")
    ELSE IF EndsWith(filename, ".xlsx") \/ EndsWith(filename, ".xls")
    THEN IF file_content.kind = "workbook"
         THEN Result([df |-> file_content.table,
                      code_history |-> self.code_history \o LoadPreamble(filename)],
                     TRUE, "loaded", NoCode, TRUE)
         ELSE Failed(self, "load_failed")
    ELSE Failed(self, "unsupported_format")

load_data_from_base64(self, file_content, filename) ==
    IF file_content.kind = "not_data_url"
    THEN Failed(self, "load_failed")
    ELSE IF EndsWith(filename, ".xlsx") \/ EndsWith(filename, ".xls")
    THEN IF file_content.kind = "workbook"
         THEN Result([df |-> file_content.table,
                      code_history |-> LoadPreamble(filename)],
                     TRUE, "loaded", NoCode, TRUE)
         ELSE Failed(self, "load_failed")
    ELSE Failed(self, "unsupported_format")

\* variant of handle_missing_values: the 'value' branch does not look at
\* fill_value
handle_missing_values_unchecked(self, method, fill_value) ==
    IF self.df.isNone THEN Failed(self, "missing_failed")
    ELSE IF method = "drop"
    THEN Done(self, dropna(self.df), Label("missing", method),
              Fragment("missing", "drop", PyNone, PyNone), "missing_done", TRUE)
    ELSE IF method = "mean"
    THEN Done(self, fillna_mean(self.df), Label("missing", method),
              Fragment("missing", "mean", PyNone, PyNone), "missing_done", TRUE)
    ELSE IF method = "median"
    THEN Done(self, fillna_median(self.df), Label("missing", method),
              Fragment("missing", "median", PyNone, PyNone), "missing_done", TRUE)
    ELSE IF method = "value"
    THEN Done(self, fillna(self.df, fill_value), Label("missing", method),
              Fragment("missing", "value", fill_value, PyNone), "missing_done", TRUE)
    ELSE Failed(self, "invalid_missing_method")

handle_missing_values(self, method, fill_value) ==
    IF self.df.isNone THEN Failed(self, "missing_failed")
    ELSE IF method = "drop"
    THEN Done(self, dropna(self.df), Label("missing", method),
              Fragment("missing", "drop", PyNone, PyNone), "missing_done", TRUE)
    ELSE IF method = "mean"
    THEN Done(self, fillna_mean(self.df), Label("missing", method),
              Fragment("missing", "mean", PyNone, PyNone), "missing_done", TRUE)
    ELSE IF method = "median"
    THEN Done(self, fillna_median(self.df), Label("missing", method),
              Fragment("missing", "median", PyNone, PyNone), "missing_done", TRUE)
    ELSE IF method = "value" /\ fill_value # PyNone
    THEN Done(self, fillna(self.df, fill_value), Label("missing", method),
              Fragment("missing", "value", fill_value, PyNone), "missing_done", TRUE)
    ELSE Failed(self, "invalid_missing_method")

handle_outliers(self, method, threshold) ==
    IF self.df.isNone THEN Failed(self, "outliers_failed")
    ELSE IF Len(NumericCols(self.df)) = 0
    THEN Failed(self, "no_numeric_outliers")
    ELSE IF method = "iqr"
    THEN Done(self, IqrLoop(self.df, NumericCols(self.df)), Label("outliers", method),
              Fragment("outliers", "iqr", PyNone, PyNone), "outliers_done", TRUE)
    ELSE IF method = "zscore"
    THEN LET st == ZscoreLoop([raised |-> FALSE, df |-> self.df],
                              NumericCols(self.df), threshold)
         IN IF st.raised
            THEN Failed([self EXCEPT !.df = st.df], "outliers_failed")
            ELSE Done(self, st.df, Label("outliers", method),
                      Fragment("outliers", "zscore", threshold, PyNone),
                      "outliers_done", TRUE)
    ELSE UnboundCode(self, Label("outliers", method), "outliers_failed")

\* variant of handle_duplicates: the entry is appended to the log before the
\* table is touched
handle_duplicates_logging_first(self) ==
    IF self.df.isNone
    THEN Failed([self EXCEPT !.code_history =
                    AppendEntry(self.code_history, Label("duplicates", ""),
                                Fragment("duplicates", "", PyNone, PyNone))],
                "duplicates_failed")
    ELSE LET new_df == drop_duplicates(self.df)
             removed_count == NRows(self.df) - NRows(new_df)
         IN [Done(self, new_df, Label("duplicates", ""),
                  Fragment("duplicates", "", PyNone, PyNone), "duplicates_done", TRUE)
              EXCEPT !.stat = IntLit(removed_count)]

\* the statistic in the message is removed_count
handle_duplicates(self) ==
    IF self.df.isNone THEN Failed(self, "duplicates_failed")
    ELSE LET new_df == drop_duplicates(self.df)
             removed_count == NRows(self.df) - NRows(new_df)
         IN [Done(self, new_df, Label("duplicates", ""),
                  Fragment("duplicates", "", PyNone, PyNone), "duplicates_done", TRUE)
              EXCEPT !.stat = IntLit(removed_count)]

standardize_data(self, method) ==
    IF self.df.isNone THEN Failed(self, "standardize_failed")
    ELSE IF Len(NumericCols(self.df)) = 0
    THEN Failed(self, "no_numeric_standardize")
    ELSE IF method = "zscore"
    THEN Done(self, StdZscoreLoop(self.df, NumericCols(self.df)),
              Label("standardize", method),
              Fragment("standardize", "zscore", PyNone, PyNone), "standardize_done", TRUE)
    ELSE IF method = "minmax"
    THEN Done(self, StdMinmaxLoop(self.df, NumericCols(self.df)),
              Label("standardize", method),
              Fragment("standardize", "minmax", PyNone, PyNone), "standardize_done", TRUE)
    ELSE UnboundCode(self, Label("standardize", method), "standardize_failed")

\* variant of correlation_analysis: one numeric column is enough
correlation_analysis_needing_one(self) ==
    IF self.df.isNone THEN Failed4(self, "correlation_failed")
    ELSE IF Len(NumericCols(self.df)) < 1
    THEN Failed4(self, "need_two_numeric")
    ELSE Done(self, corr_matrix(self.df), Label("correlation", ""),
              Fragment("correlation", "", PyNone, PyNone), "correlation_done", TRUE)

correlation_analysis(self) ==
    IF self.df.isNone THEN Failed4(self, "correlation_failed")
    ELSE IF Len(NumericCols(self.df)) < 2
    THEN Failed4(self, "need_two_numeric")
    ELSE Done(self, corr_matrix(self.df), Label("correlation", ""),
              Fragment("correlation", "", PyNone, PyNone), "correlation_done", TRUE)

\* bool(x) of a request parameter
Truthy(x) ==
    \/ x.t = "str" /\ x.s # ""
    \/ x.t = "num" /\ x.v # 0

\* column in self.df.columns
HasColumn(t, column) == ColIndex(t, column) # 0

\* pd.api.types.is_numeric_dtype(self.df[column])
IsNumericColumn(t, column) == t.cols[ColIndex(t, column)].dtype = "num"

\* the branch `if column2:` of t_test
TwoSampleBranch(self, column1, column2, value) ==
    IF ~HasColumn(self.df, column2) THEN Failed4(self, "column_missing")
    ELSE IF ~IsNumericColumn(self.df, column2) THEN Failed4(self, "column_not_numeric")
    ELSE LET sample1 == Present(Column(self.df, ColIndex(self.df, column1)))
             sample2 == Present(Column(self.df, ColIndex(self.df, column2)))
         IN IF Len(sample1) = 0 \/ Len(sample2) = 0
            THEN Failed4(self, "t_test_failed")       \* 1/n1 + 1/n2: ZeroDivisionError
            ELSE [Done(self, self.df, Label("t_test", ""),
                       Fragment("t_test", "two_sample", column1, column2),
                       "two_sample_done", FALSE)
                   EXCEPT !.stat = TwoSampleT(sample1, sample2)]

\* variant of OneSampleBranch: the statistic is stored as the table
OneSampleStoringStat(self, column1, column2, value) ==
    IF value = PyNone THEN Failed4(self, "need_test_value")
    ELSE IF ~IsNum(value) THEN Failed4(self, "t_test_failed")
    ELSE LET sample == Present(Column(self.df, ColIndex(self.df, column1)))
         IN [Done(self,
                  DataFrame(<<Col(Str("t"), "num")>>,
                            <<Row(IntLit(0), <<OneSampleT(sample, value)>>)>>),
                  Label("t_test", ""),
                  Fragment("t_test", "one_sample", column1, value),
                  "one_sample_done", FALSE)
              EXCEPT !.stat = OneSampleT(sample, value)]

\* the branch `else:` of t_test
OneSampleBranch(self, column1, column2, value) ==
    IF value = PyNone THEN Failed4(self, "need_test_value")
    ELSE IF ~IsNum(value) THEN Failed4(self, "t_test_failed")   \* mean - value: TypeError
    ELSE LET sample == Present(Column(self.df, ColIndex(self.df, column1)))
         IN [Done(self, self.df, Label("t_test", ""),
                  Fragment("t_test", "one_sample", column1, value),
                  "one_sample_done", FALSE)
              EXCEPT !.stat = OneSampleT(sample, value)]

t_test(self, column1, column2, value) ==
    IF self.df.isNone THEN Failed4(self, "t_test_failed")
    ELSE IF ~HasColumn(self.df, column1) THEN Failed4(self, "column_missing")
    ELSE IF ~IsNumericColumn(self.df, column1) THEN Failed4(self, "column_not_numeric")
    ELSE IF Truthy(column2) THEN TwoSampleBranch(self, column1, column2, value)
    ELSE OneSampleBranch(self, column1, column2, value)

chi_square_test(self, column1, column2) ==
    IF self.df.isNone THEN Failed4(self, "chi_square_failed")
    ELSE IF ~HasColumn(self.df, column1) \/ ~HasColumn(self.df, column2)
    THEN Failed4(self, "column_missing")
    ELSE LET contingency_table == crosstab(self.df, ColIndex(self.df, column1),
                                           ColIndex(self.df, column2))
         IN [Done(self, contingency_table, Label("chi_square", ""),
                  Fragment("chi_square", "", column1, column2),
                  "chi_square_done", TRUE)
              EXCEPT !.stat = ChiSquare(contingency_table)]

\* "\n".join(self.code_history): the lines of the script, in order
get_complete_code(self) == self.code_history

\* variant of to_excel_raises: the export of a missing table writes an empty
\* workbook
to_excel_never_raises(self) == FALSE

\* to_excel raises when self.df is None (self.df.to_excel on None)
to_excel_raises(self) == self.df.isNone

\* --------------------------------------------------- the generated script

\* the effect on the script's variable df of executing one line of the log:
\* the load statement reads the original file, the transform fragments
\* reassign df, the analysis fragments assign other variables and print
RunLine(line, df, original) ==
    IF line.kind # "code" THEN df
    ELSE IF line.op = "load" THEN original
    ELSE IF line.op = "missing" /\ line.method = "drop" THEN dropna(df)
    ELSE IF line.op = "missing" /\ line.method = "mean" THEN fillna_mean(df)
    ELSE IF line.op = "missing" /\ line.method = "median" THEN fillna_median(df)
    ELSE IF line.op = "missing" /\ line.method = "value" THEN fillna(df, line.a1)
    ELSE IF line.op = "outliers" /\ line.method = "iqr"
    THEN IqrLoop(df, NumericCols(df))
    ELSE IF line.op = "outliers" /\ line.method = "zscore"
    THEN ZscoreLoop([raised |-> FALSE, df |-> df], NumericCols(df), line.a1).df
    ELSE IF line.op = "duplicates" THEN drop_duplicates(df)
    ELSE IF line.op = "standardize" /\ line.method = "zscore"
    THEN StdZscoreLoop(df, NumericCols(df))
    ELSE IF line.op = "standardize" /\ line.method = "minmax"
    THEN StdMinmaxLoop(df, NumericCols(df))
    ELSE df

\* df after executing the script against a fresh copy of the original file
RECURSIVE RunScript(_, _, _)
RunScript(script, df, original) ==
    IF script = <<>> THEN df
    ELSE RunScript(Tail(script), RunLine(Head(script), df, original), original)

\* ------------------------------------------------------------------ inputs

\* a request parameter that the JSON body does not carry
Absent == [t |-> "absent", v |-> 0, s |-> ""]

\* params.get(key, default)
Get(param, default) == IF param = Absent THEN default ELSE param

\* params.get('method', default), a string
GetMethod(param, default) == IF param = Absent THEN default ELSE param.s

\* threshold=3, the default of handle_outliers and of the route
DefaultThreshold == 3

\* the parameters of a /process request
Args(method, fill_value, threshold, column1, column2, value) ==
    [method |-> method, fill_value |-> fill_value, threshold |-> threshold,
     column1 |-> column1, column2 |-> column2, value |-> value]

NoArgs == Args(Absent, PyNone, Absent, PyNone, PyNone, PyNone)

\* the workbooks that are uploaded
FileA ==
    DataFrame(<< Col(Str("a"), "num"), Col(Str("b"), "num"), Col(Str("g"), "obj") >>,
              << Row(IntLit(0), << IntLit(1), IntLit(2), Str("x") >>),
                 Row(IntLit(1), << IntLit(2), IntLit(4), Str("y") >>),
                 Row(IntLit(2), << IntLit(2), IntLit(4), Str("y") >>),
                 Row(IntLit(3), << NaN, IntLit(3), Str("x") >>),
                 Row(IntLit(4), << IntLit(10), IntLit(3), NaN >>) >>)

FileB ==
    DataFrame(<< Col(Str("a"), "num"), Col(Str("b"), "num"), Col(Str("g"), "obj") >>,
              << Row(IntLit(0), << IntLit(1), NaN, Str("x") >>),
                 Row(IntLit(1), << IntLit(1), NaN, Str("y") >>) >>)

FileC ==
    DataFrame(<< Col(Str("g"), "obj"), Col(Str("h"), "obj") >>,
              << Row(IntLit(0), << Str("x"), Str("p") >>),
                 Row(IntLit(1), << Str("y"), Str("q") >>),
                 Row(IntLit(2), << Str("x"), Str("p") >>),
                 Row(IntLit(3), << Str("y"), Str("q") >>) >>)

FileD ==
    DataFrame(<< Col(Str("a"), "num"), Col(Str("b"), "num") >>,
              << Row(IntLit(0), << IntLit(1), IntLit(2) >>),
                 Row(IntLit(1), << IntLit(2), IntLit(2) >>),
                 Row(IntLit(2), << IntLit(3), IntLit(2) >>) >>)

Files == {FileA, FileB, FileC, FileD}

\* the /upload requests: file content and filename
Uploads ==
    {<<Workbook(f), Filename("data", ".xlsx")>> : f \in Files}
    \cup {<<Workbook(FileD), Filename("old", ".xls")>>,
          <<Workbook(FileA), Filename("data", ".csv")>>,
          <<NotWorkbook, Filename("data", ".xlsx")>>,
          <<NotWorkbook, Filename("old", ".xls")>>,
          <<NotDataUrl, Filename("data", ".xlsx")>>}

MissingArgs ==
    {Args(m, PyNone, Absent, PyNone, PyNone, PyNone) :
        m \in {Absent, Str("mean"), Str("median"), Str("value"), Str("bogus")}}
    \cup {Args(Str("value"), f, Absent, PyNone, PyNone, PyNone) : f \in {IntLit(0), Str("x")}}

OutlierArgs ==
    {Args(Absent, PyNone, Absent, PyNone, PyNone, PyNone),
     Args(Str("zscore"), PyNone, Absent, PyNone, PyNone, PyNone),
     Args(Str("zscore"), PyNone, IntLit(1), PyNone, PyNone, PyNone),
     Args(Str("zscore"), PyNone, PyNone, PyNone, PyNone, PyNone),
     Args(Str("bogus"), PyNone, Absent, PyNone, PyNone, PyNone)}

StandardizeArgs ==
    {Args(m, PyNone, Absent, PyNone, PyNone, PyNone) : m \in {Absent, Str("minmax"), Str("bogus")}}

TTestArgs ==
    {Args(Absent, PyNone, Absent, c[1], c[2], c[3]) : c \in
        {<<Str("a"), PyNone, PyNone>>, <<Str("a"), PyNone, IntLit(2)>>,
         <<Str("a"), Str("b"), PyNone>>, <<Str("a"), Str("b"), IntLit(2)>>,
         <<Str("a"), Str("a"), PyNone>>,
         <<Str("a"), PyNone, Str("x")>>, <<Str("a"), Str("g"), PyNone>>,
         <<Str("a"), Str("zz"), PyNone>>, <<Str("g"), PyNone, IntLit(2)>>,
         <<PyNone, PyNone, PyNone>>}}

ChiSquareArgs ==
    {Args(Absent, PyNone, Absent, c[1], c[2], PyNone) : c \in
        {<<Str("g"), Str("a")>>, <<Str("g"), Str("h")>>, <<Str("a"), Str("zz")>>}}

\* -------------------------------------------------------------- the state

VARIABLES
    processor,   \* the global DataProcessor: [df, code_history]
    original,    \* the table of the file of the last successful load
    before,      \* the processor as it was when the request in hand arrived
    reply,       \* the request in hand and its answer, until it is sent
    threads,     \* the worker threads of the server: where each one stands
    taken        \* the requests that the worker threads have taken, in order

vars == <<processor, original, before, reply, threads, taken>>

\* the worker threads that handle requests at the same time
Threads == {"t1", "t2"}

\* a worker thread: its position in the handler, the request it handles,
\* whether the DataProcessor it was called on is still the global one, and the
\* table it has computed and not yet assigned
Thread(pc, request, detached, local) ==
    [pc |-> pc, request |-> request, detached |-> detached, local |-> local]

IdleThread == Thread("idle", "", FALSE, NoneDF)

\* the state of the worker threads while requests are handled one at a time
serial == <<threads, taken>>

\* a request with its answer: the value returned by the DataProcessor method
\* (result) and the fields of the JSON response
Reply(route, operation, args, upload, result, success, message, can_download) ==
    [route |-> route, operation |-> operation, args |-> args, upload |-> upload,
     result |-> [success |-> result.success, message |-> result.message,
                 code |-> result.code, can_download |-> result.can_download,
                 stat |-> result.stat],
     success |-> success, message |-> message,
     code |-> get_complete_code(result.self), can_download |-> can_download]

\* the upload fields of a request that is no upload
NoUpload == <<NotDataUrl, Filename("", "")>>

\* no request in hand
Idle == Reply("idle", "", NoArgs, NoUpload, Failed(NewProcessor, ""), FALSE, "", FALSE)

Init ==
    /\ processor = NewProcessor
    /\ original = NoneDF
    /\ before = NewProcessor
    /\ reply = Idle
    /\ threads = [t \in Threads |-> IdleThread]
    /\ taken = <<>>

\* the method that /process dispatches to; an operation outside the seven
\* leaves success = False, message = "", code = "", can_download = True
Dispatch(self, operation, args) ==
    IF operation = "missing_values"
    THEN handle_missing_values(self, GetMethod(args.method, "drop"), args.fill_value)
    ELSE IF operation = "outliers"
    THEN handle_outliers(self, GetMethod(args.method, "iqr"),
                         Get(args.threshold, IntLit(DefaultThreshold)))
    ELSE IF operation = "duplicates" THEN handle_duplicates(self)
    ELSE IF operation = "standardization"
    THEN standardize_data(self, GetMethod(args.method, "zscore"))
    ELSE IF operation = "correlation" THEN correlation_analysis(self)
    ELSE IF operation = "t_test"
    THEN t_test(self, args.column1, args.column2, args.value)
    ELSE IF operation = "chi_square"
    THEN chi_square_test(self, args.column1, args.column2)
    ELSE Result(self, FALSE, "", NoCode, TRUE)

\* variant of process_data: the flag of the method is passed on as it is
process_data_passing_flag(operation, args) ==
    LET r == Dispatch(processor, operation, args)
    IN /\ reply = Idle
       /\ Len(processor.code_history) < MaxLog
       /\ processor' = r.self
       /\ before' = processor
       /\ reply' = Reply("process", operation, args, NoUpload, r, r.success,
                         r.message, r.can_download)
       /\ UNCHANGED original
       /\ UNCHANGED serial

\* POST /process
process_data(operation, args) ==
    LET r == Dispatch(processor, operation, args)
        refused == ~r.success /\ r.can_download
    IN /\ reply = Idle
       /\ Len(processor.code_history) < MaxLog
       /\ processor' = r.self
       /\ before' = processor
       /\ reply' = Reply("process", operation, args, NoUpload, r, r.success,
                         IF refused THEN "no_table_for_function" ELSE r.message,
                         IF refused THEN FALSE ELSE r.can_download)
       /\ UNCHANGED original
       /\ UNCHANGED serial

ProcessMissingValues == \E args \in MissingArgs : process_data("missing_values", args)
ProcessOutliers == \E args \in OutlierArgs : process_data("outliers", args)
ProcessDuplicates == process_data("duplicates", NoArgs)
ProcessStandardization == \E args \in StandardizeArgs : process_data("standardization", args)
ProcessCorrelation == process_data("correlation", NoArgs)
ProcessTTest == \E args \in TTestArgs : process_data("t_test", args)
ProcessChiSquare == \E args \in ChiSquareArgs : process_data("chi_square", args)
ProcessUnknown == process_data("pivot", NoArgs)

\* POST /upload
upload_file ==
    \E up \in Uploads :
        LET r == load_data_from_base64(processor, up[1], up[2])
        IN /\ reply = Idle
           /\ processor' = r.self
           /\ before' = processor
           /\ original' = IF r.success THEN up[1].table ELSE original
           /\ reply' = Reply("upload", "", NoArgs, up, r, r.success, r.message, FALSE)
           /\ UNCHANGED serial

\* GET /download
download_file ==
    /\ reply = Idle
    /\ reply' = Reply("download", "", NoArgs, NoUpload, Failed(processor, ""),
                      ~to_excel_raises(processor),
                      IF to_excel_raises(processor) THEN "download_failed" ELSE "",
                      FALSE)
    /\ before' = processor
    /\ UNCHANGED <<processor, original>>
    /\ UNCHANGED serial

\* variant of reset_processor: only the table is discarded
reset_keeping_log ==
    /\ reply = Idle
    /\ processor' = [processor EXCEPT !.df = NoneDF]
    /\ before' = processor
    /\ reply' = Reply("reset", "", NoArgs, NoUpload, Failed(NewProcessor, ""),
                      TRUE, "reset_done", FALSE)
    /\ UNCHANGED original
    /\ UNCHANGED serial

\* POST /reset
reset_processor ==
    /\ reply = Idle
    /\ processor' = NewProcessor
    /\ before' = processor
    /\ reply' = Reply("reset", "", NoArgs, NoUpload, Failed(NewProcessor, ""),
                      TRUE, "reset_done", FALSE)
    /\ UNCHANGED original
    /\ UNCHANGED serial

\* the route returns: the answer is sent and the next request can be taken
respond ==
    /\ reply # Idle
    /\ reply' = Idle
    /\ before' = processor
    /\ UNCHANGED <<processor, original>>
    /\ UNCHANGED serial

Next ==
    \/ upload_file
    \/ ProcessMissingValues
    \/ ProcessOutliers
    \/ ProcessDuplicates
    \/ ProcessStandardization
    \/ ProcessCorrelation
    \/ ProcessTTest
    \/ ProcessChiSquare
    \/ ProcessUnknown
    \/ download_file
    \/ reset_processor
    \/ respond

Spec == Init /\ [][Next]_vars

\* ------------------------------------------------ requests handled at once
\*
\* The routes hold no lock on the global processor: with a threaded server two
\* handlers run at the same time and the interpreter switches between them
\* between any two statements, and between the evaluation of a right-hand
\* side and its assignment.  Each worker thread goes through the statements of
\* its handler one step at a time.

\* the upload that the worker threads handle
ConcUpload == <<Workbook(FileA), Filename("data", ".xlsx")>>

\* the /process requests that the worker threads handle
ConcOperations == {"duplicates", "missing_values"}

\* the right-hand side of the assignment to self.df of an operation
ConcTransform(operation, df) ==
    IF operation = "duplicates" THEN drop_duplicates(df) ELSE dropna(df)

ConcLabel(operation) ==
    IF operation = "duplicates" THEN Label("duplicates", "")
    ELSE Label("missing", "drop")

ConcFragment(operation) ==
    IF operation = "duplicates" THEN Fragment("duplicates", "", PyNone, PyNone)
    ELSE Fragment("missing", "drop", PyNone, PyNone)

\* thread t moves to position pc
Goto(t, pc, local) ==
    threads' = [threads EXCEPT ![t] = Thread(pc, threads[t].request, FALSE, local)]

\* thread t returns from its handler
Return(t) == threads' = [threads EXCEPT ![t] = IdleThread]

\* a thread stands at position pc of its handler, on the global processor
At(t, pc) == threads[t].pc = pc /\ ~threads[t].detached

\* /process arrives: the route calls the method on the global processor
take_process(t) ==
    \E operation \in ConcOperations :
        /\ threads[t].pc = "idle"
        /\ Len(taken) < MaxRequests
        /\ taken' = Append(taken, operation)
        /\ threads' = [threads EXCEPT ![t] = Thread("read", operation, FALSE, NoneDF)]
        /\ UNCHANGED <<processor, original, before, reply>>

\* /upload arrives: the route calls load_data_from_base64 on the global processor
take_upload(t) ==
    /\ threads[t].pc = "idle"
    /\ Len(taken) < MaxRequests
    /\ taken' = Append(taken, "upload")
    /\ threads' = [threads EXCEPT ![t] = Thread("load_df", "upload", FALSE, NoneDF)]
    /\ UNCHANGED <<processor, original, before, reply>>

\* self.df.dropna() / self.df.drop_duplicates() is evaluated; on a session
\* without a table it raises and the method returns failure
read_table(t) ==
    /\ At(t, "read")
    /\ IF processor.df.isNone
       THEN Return(t)
       ELSE Goto(t, "write", ConcTransform(threads[t].request, processor.df))
    /\ UNCHANGED <<processor, original, before, reply, taken>>

\* self.df = <the table evaluated>
write_table(t) ==
    /\ At(t, "write")
    /\ processor' = [processor EXCEPT !.df = threads[t].local]
    /\ Goto(t, "label", NoneDF)
    /\ UNCHANGED <<original, before, reply, taken>>

\* self.code_history.append(label)
append_label(t) ==
    /\ At(t, "label")
    /\ processor' = [processor EXCEPT
                        !.code_history = Append(@, ConcLabel(threads[t].request))]
    /\ Goto(t, "code", NoneDF)
    /\ UNCHANGED <<original, before, reply, taken>>

\* self.code_history.append(code), and the method returns
append_code(t) ==
    /\ At(t, "code")
    /\ processor' = [processor EXCEPT
                        !.code_history = Append(@, ConcFragment(threads[t].request))]
    /\ Return(t)
    /\ UNCHANGED <<original, before, reply, taken>>

\* self.df = pd.read_excel(file_obj)
load_table(t) ==
    /\ At(t, "load_df")
    /\ processor' = [processor EXCEPT !.df = ConcUpload[1].table]
    /\ original' = ConcUpload[1].table
    /\ Goto(t, "load_log", NoneDF)
    /\ UNCHANGED <<before, reply, taken>>

\* self.code_history = [...], and the method returns
load_log(t) ==
    /\ At(t, "load_log")
    /\ processor' = [processor EXCEPT !.code_history = LoadPreamble(ConcUpload[2])]
    /\ Return(t)
    /\ UNCHANGED <<original, before, reply, taken>>

\* /reset: processor = DataProcessor().  The methods that the other threads
\* are running stay bound to the object that was the global one.
conc_reset(t) ==
    /\ threads[t].pc = "idle"
    /\ Len(taken) < MaxRequests
    /\ taken' = Append(taken, "reset")
    /\ processor' = NewProcessor
    /\ threads' = [u \in Threads |->
                      IF threads[u].pc = "idle" THEN threads[u]
                      ELSE [threads[u] EXCEPT !.detached = TRUE]]
    /\ UNCHANGED <<original, before, reply>>

\* a method running on an object that is no longer the global processor
\* finishes there: nothing it does reaches the session
finish_detached(t) ==
    /\ threads[t].pc # "idle"
    /\ threads[t].detached
    /\ Return(t)
    /\ UNCHANGED <<processor, original, before, reply, taken>>

NextConc ==
    \E t \in Threads :
        \/ take_process(t)
        \/ take_upload(t)
        \/ read_table(t)
        \/ write_table(t)
        \/ append_label(t)
        \/ append_code(t)
        \/ load_table(t)
        \/ load_log(t)
        \/ conc_reset(t)
        \/ finish_detached(t)

SpecConc == Init /\ [][NextConc]_vars

\* ------------------------------------------------------------ properties

\* the seven operations of DataProcessor, by their /process names
Operations == {"missing_values", "outliers", "duplicates", "standardization",
               "correlation", "t_test", "chi_square"}

\* a /process request for one of the seven operations has just been handled
Handled(operation) == reply.route = "process" /\ reply.operation = operation

\* xs is an initial segment of ys
IsPrefix(xs, ys) == Len(xs) <= Len(ys) /\ SubSeq(ys, 1, Len(xs)) = xs

\* C1: whenever one of the seven operations returns success = False, the
\* table and the log are what they were before the call.
C1_FailedCallLeavesState ==
    (reply.route = "process" /\ reply.operation \in Operations /\ ~reply.result.success)
        => (processor.df = before.df /\ processor.code_history = before.code_history)

\* C2: executing the script of get_complete_code against a fresh copy of the
\* loaded file leaves df equal to the session's table.
C2_ScriptReproducesTable ==
    ~processor.df.isNone
        => RunScript(get_complete_code(processor), NoneDF, original) = processor.df

\* the tag that the log entries of an operation carry
OpTag(operation) ==
    IF operation = "missing_values" THEN "missing"
    ELSE IF operation = "standardization" THEN "standardize"
    ELSE operation

\* C3: the log is append-only: a successful operation appends its label and
\* then its fragment at the end and leaves the earlier entries in place; only
\* ingestion and reset remove entries.
C3_LogAppendOnly ==
    /\ (reply.route = "process" /\ reply.success) =>
          LET n == Len(before.code_history)
              h == processor.code_history
          IN /\ Len(h) = n + 2
             /\ SubSeq(h, 1, n) = before.code_history
             /\ h[n + 1] = Label(OpTag(reply.operation), h[n + 1].method)
             /\ h[n + 2].kind = "code"
             /\ h[n + 2].op = OpTag(reply.operation)
             /\ h[n + 2] = reply.result.code
    /\ (reply.route \notin {"upload", "reset"}) =>
          IsPrefix(before.code_history, processor.code_history)

\* a successful t_test on a log that already holds an earlier operation
C3_Witness ==
    /\ Handled("t_test")
    /\ reply.success
    /\ Len(before.code_history) >= 5
    /\ processor.df = before.df

\* C4: t_test never changes the table; a successful chi_square_test replaces
\* it by the contingency table of the two columns and by nothing else, and a
\* failed one leaves it.
C4_TestsKeepStatisticsOut ==
    /\ Handled("t_test") => processor.df = before.df
    /\ (Handled("chi_square") /\ reply.success) =>
          processor.df = crosstab(before.df,
                                  ColIndex(before.df, reply.args.column1),
                                  ColIndex(before.df, reply.args.column2))
    /\ (Handled("chi_square") /\ ~reply.success) => processor.df = before.df

\* a successful chi_square_test with a non-zero statistic, on a session whose
\* log records an earlier successful t_test
C4_Witness ==
    /\ Handled("chi_square")
    /\ reply.success
    /\ reply.result.stat.v > 0
    /\ \E i \in 1..Len(before.code_history) :
          before.code_history[i].kind = "code" /\ before.code_history[i].op = "t_test"

\* a parameter that the request supplies
Supplied(x) == x # PyNone

\* C5: for an existing numeric column1, t_test succeeds only when exactly one
\* of column2 and value is supplied; with neither or with both it fails and
\* appends nothing.
C5_TTestNeedsExactlyOne ==
    (/\ Handled("t_test")
     /\ ~before.df.isNone
     /\ HasColumn(before.df, reply.args.column1)
     /\ IsNumericColumn(before.df, reply.args.column1))
        => /\ reply.success => (Supplied(reply.args.column2) # Supplied(reply.args.value))
           /\ (Supplied(reply.args.column2) = Supplied(reply.args.value))
                 => (~reply.success /\ processor.code_history = before.code_history)

\* C6: a failed ingestion leaves the table and the log as they were.
C6_FailedLoadLeavesState ==
    (reply.route = "upload" /\ ~reply.success) => processor = before

\* a load that raised, on a session holding a table and a log with an operation
C6_Witness ==
    /\ reply.route = "upload"
    /\ ~reply.success
    /\ reply.message = "load_failed"
    /\ ~before.df.isNone
    /\ Len(before.code_history) > 3

\* C7: a successful ingestion sets the table to the parsed file and the log to
\* the load preamble for the given filename alone.
C7_LoadResetsLog ==
    (reply.route = "upload" /\ reply.success) =>
        /\ processor.df = reply.upload[1].table
        /\ processor.code_history =
              << ImportLine, Label("load", ""),
                 Fragment("load", "", Str(reply.upload[2].stem),
                          Str(reply.upload[2].suffix)) >>

\* a successful load on a session whose log held an operation
C7_Witness ==
    /\ reply.route = "upload"
    /\ reply.success
    /\ ~before.df.isNone
    /\ Len(before.code_history) > 3

\* C8: after reset the session has no table and an empty log.
C8_ResetClearsBoth ==
    reply.route = "reset" => (processor.df = NoneDF /\ processor.code_history = <<>>)

\* a reset of a session that held a table and a log
C8_Witness ==
    /\ reply.route = "reset"
    /\ ~before.df.isNone
    /\ before.code_history # <<>>

\* C9: export fails whenever no table is held, and a session without a table
\* stays without one until an ingestion succeeds.
C9_ExportOnlyWhenLoaded ==
    /\ (reply.route = "download" /\ processor.df.isNone) => ~reply.success
    /\ (before.df.isNone /\ ~(reply.route = "upload" /\ reply.success))
          => processor.df.isNone

\* a refused export after a reset (a file had been loaded earlier)
C9_Witness ==
    /\ reply.route = "download"
    /\ ~reply.success
    /\ processor.df.isNone
    /\ ~original.isNone

\* a handle_missing_values call with method 'value' and no fill value, or with
\* a method outside drop, mean, median and value
InvalidMissingCall ==
    /\ Handled("missing_values")
    /\ LET method == GetMethod(reply.args.method, "drop")
       IN \/ method = "value" /\ reply.args.fill_value = PyNone
          \/ method \notin {"drop", "mean", "median", "value"}

\* C10 as stated: such a call fails with the invalid-method message and
\* changes neither table nor log, in every session state.
C10_InvalidMethodMessage ==
    InvalidMissingCall =>
        /\ ~reply.result.success
        /\ reply.result.message = "invalid_missing_method"
        /\ processor = before

\* C10: such a call fails and changes neither table nor log; on a session that
\* holds a table the failure carries the invalid-method message.
C10_InvalidMethodWhenLoaded ==
    InvalidMissingCall =>
        /\ ~reply.result.success
        /\ processor = before
        /\ ~before.df.isNone => reply.result.message = "invalid_missing_method"

\* method 'value' without a fill value on a session that holds a table
C10_Witness ==
    /\ InvalidMissingCall
    /\ reply.args.method = Str("value")
    /\ ~before.df.isNone

\* the method of the /process request in hand, with the default of its route
MethodOf(default) == GetMethod(reply.args.method, default)

\* C11: row-count law.  A successful drop of missing values, outlier removal
\* (iqr, zscore) or deduplication leaves at most as many rows as it found; a
\* successful standardisation (zscore, minmax) or fill of missing values
\* (mean, median, value) leaves exactly as many.
C11_RowCountLaw ==
    (reply.route = "process" /\ reply.success /\ ~before.df.isNone) =>
        /\ (\/ Handled("missing_values") /\ MethodOf("drop") = "drop"
            \/ Handled("outliers") /\ MethodOf("iqr") \in {"iqr", "zscore"}
            \/ Handled("duplicates"))
              => NRows(processor.df) <= NRows(before.df)
        /\ (\/ Handled("standardization") /\ MethodOf("zscore") \in {"zscore", "minmax"}
            \/ Handled("missing_values") /\ MethodOf("drop") \in {"mean", "median", "value"})
              => NRows(processor.df) = NRows(before.df)

\* a mean fill that filled an absent number, on a table of several rows
C11_Witness ==
    /\ Handled("missing_values")
    /\ reply.success
    /\ MethodOf("drop") = "mean"
    /\ NRows(before.df) > 1
    /\ \E r \in 1..NRows(before.df) : \E c \in 1..NCols(before.df) :
          /\ before.df.cols[c].dtype = "num"
          /\ IsNaN(before.df.rows[r].cells[c])
          /\ IsNum(processor.df.rows[r].cells[c])

\* the last entry of a log is the fragment of a deduplication
EndsWithDedup(history) ==
    /\ history # <<>>
    /\ history[Len(history)] = Fragment("duplicates", "", PyNone, PyNone)

\* C12: deduplication is idempotent: on every table, deduplicating twice gives
\* what deduplicating once gives; a handle_duplicates call that directly
\* follows a successful one leaves the table as it is, reports 0 rows removed
\* and still appends its entry to the log.
C12_DedupIdempotent ==
    /\ ~processor.df.isNone =>
          drop_duplicates(drop_duplicates(processor.df)) = drop_duplicates(processor.df)
    /\ (Handled("duplicates") /\ reply.success /\ EndsWithDedup(before.code_history)) =>
          /\ processor.df = before.df
          /\ reply.result.stat = IntLit(0)
          /\ Len(processor.code_history) = Len(before.code_history) + 2

\* the second of two deduplications in a row, the first of which removed rows
C12_Witness ==
    /\ Handled("duplicates")
    /\ reply.success
    /\ EndsWithDedup(before.code_history)
    /\ NRows(before.df) < NRows(original)
    /\ Len(before.code_history) = 5

\* the position in table t of the row with index label idx, 0 when there is none
RowAt(t, idx) ==
    IF \E p \in 1..NRows(t) : t.rows[p].idx = idx
    THEN CHOOSE p \in 1..NRows(t) : t.rows[p].idx = idx
    ELSE 0

\* C13: a successful handle_duplicates keeps, of the rows with the same cells
\* in all columns, exactly the first one, in the order of the input, and
\* reports input rows minus output rows as the number removed.
C13_DedupKeepsFirst ==
    (Handled("duplicates") /\ reply.success) =>
        LET in == before.df
            out == processor.df
            pos(i) == RowAt(in, out.rows[i].idx)
        IN /\ out.cols = in.cols
           \* every kept row is a row of the input, and the first with its cells
           /\ \A i \in 1..NRows(out) :
                 /\ pos(i) # 0
                 /\ in.rows[pos(i)] = out.rows[i]
                 /\ \A q \in 1..(pos(i) - 1) : in.rows[q].cells # out.rows[i].cells
           \* one row is kept for every distinct row of the input
           /\ \A p \in 1..NRows(in) :
                 \E i \in 1..NRows(out) : out.rows[i].cells = in.rows[p].cells
           /\ \A i, j \in 1..NRows(out) :
                 i # j => out.rows[i].cells # out.rows[j].cells
           \* in the order of the input
           /\ \A i, j \in 1..NRows(out) : i < j => pos(i) < pos(j)
           /\ reply.result.stat = IntLit(NRows(in) - NRows(out))

\* a deduplication that removed a row which was not the last row of the table
C13_Witness ==
    /\ Handled("duplicates")
    /\ reply.success
    /\ reply.result.stat.v > 0
    /\ \E p \in 1..NRows(before.df) :
          /\ p < NRows(before.df)
          /\ RowAt(processor.df, before.df.rows[p].idx) = 0

\* row r of table t passes the check of numeric column c alone, the bounds
\* (iqr) or mean and std (zscore) taken from column c of t itself
PassesColumn(t, c, r, method, threshold) ==
    LET kept == IF method = "iqr" THEN IqrStep(t, c)
                ELSE ZscoreStep([raised |-> FALSE, df |-> t], c, threshold).df
    IN RowAt(kept, t.rows[r].idx) # 0

\* the rows of t that pass the check of every numeric column of t
PassingEveryColumn(t, method, threshold) ==
    FilterRows(t, [r \in 1..NRows(t) |->
        \A k \in 1..Len(NumericCols(t)) :
            PassesColumn(t, NumericCols(t)[k], r, method, threshold)])

\* C14: a successful handle_outliers (iqr or zscore) leaves exactly the rows
\* of the input table that are within bounds for every numeric column, each
\* column's bounds computed from that column of the input table.
C14_OutliersIndependentPerColumn ==
    (/\ Handled("outliers")
     /\ reply.success
     /\ MethodOf("iqr") \in {"iqr", "zscore"})
        => processor.df = PassingEveryColumn(before.df, MethodOf("iqr"),
                              Get(reply.args.threshold, IntLit(DefaultThreshold)))

\* C15: in IQR filtering a row with an absent value in a numeric column does
\* not fail that column: it is kept when each of its present numeric values
\* lies within the bounds of its column.
C15_IqrKeepsRowsWithAbsent ==
    (/\ Handled("outliers")
     /\ reply.success
     /\ MethodOf("iqr") = "iqr")
        => \A r \in 1..NRows(before.df) :
              LET nc == NumericCols(before.df)
                  cell(k) == before.df.rows[r].cells[nc[k]]
              IN (/\ \E k \in 1..Len(nc) : IsNaN(cell(k))
                  /\ \A k \in 1..Len(nc) :
                        IsNum(cell(k)) =>
                            PassesColumn(before.df, nc[k], r, "iqr", PyNone))
                   => RowAt(processor.df, before.df.rows[r].idx) # 0

\* the threshold that handle_outliers receives for the request in hand
ThresholdOf == Get(reply.args.threshold, IntLit(DefaultThreshold))

\* mean and sample standard deviation of column c of table t
ColMean(t, c) == Mean(Present(Column(t, c)))
ColStd(t, c) == Std(Present(Column(t, c)))

\* |value - mean| / std of row r in column c of t, in units of 1/Scale
\* (the column has a non-zero standard deviation and the cell is a number)
AbsStandardized(t, c, r) ==
    RDiv(Abs(t.rows[r].cells[c].v - ColMean(t, c).v) * Scale, ColStd(t, c).v)

\* the numeric columns of t with a non-zero standard deviation
VaryingCols(t) ==
    {c \in 1..NCols(t) : t.cols[c].dtype = "num" /\ GT(ColStd(t, c), Num(0))}

C17_StandardizeFrame ==
    /\ (Handled("standardization") /\ reply.success) =>
          LET t == before.df
              u == processor.df
              method == MethodOf("zscore")
              flat(c) ==
                  \/ t.cols[c].dtype # "num"
                  \/ method = "zscore" /\ ColStd(t, c) = Num(0)
                  \/ /\ method = "minmax"
                     /\ IsNum(MaxOf(Present(Column(t, c))))
                     /\ MaxOf(Present(Column(t, c))) = MinOf(Present(Column(t, c)))
          IN /\ u.cols = t.cols
             /\ NRows(u) = NRows(t)
             /\ \A r \in 1..NRows(t) : u.rows[r].idx = t.rows[r].idx
             /\ \A c \in 1..NCols(t) : flat(c) => Column(u, c) = Column(t, c)
             /\ \A c \in 1..NCols(t) : \A r \in 1..NRows(t) :
                   IsNum(t.rows[r].cells[c]) <=> IsNum(u.rows[r].cells[c])
    /\ (/\ Handled("standardization")
        /\ ~before.df.isNone
        /\ NumericCols(before.df) = <<>>)
          => /\ ~reply.success
             /\ reply.result.message = "no_numeric_standardize"
             /\ processor = before

\* a z-score standardisation that rescaled one column and found another
\* numeric column with zero standard deviation
C17_Witness ==
    /\ Handled("standardization")
    /\ reply.success
    /\ MethodOf("zscore") = "zscore"
    /\ \E c, d \in 1..NCols(before.df) :
          /\ before.df.cols[c].dtype = "num"
          /\ ColStd(before.df, c) = Num(0)
          /\ Column(processor.df, d) # Column(before.df, d)

\* the sample that t_test takes from a column: its present values
SampleOf(t, column) == Present(Column(t, ColIndex(t, column)))

\* C18: a successful two-sample t_test on two numeric columns whose samples
\* have identical means and identical variances reports a t-statistic of
\* exactly 0, whatever the common variance and the sample sizes.
C18_EqualSamplesGiveZero ==
    (/\ Handled("t_test")
     /\ reply.success
     /\ Truthy(reply.args.column2))
        => LET sample1 == SampleOf(before.df, reply.args.column1)
               sample2 == SampleOf(before.df, reply.args.column2)
           IN (/\ Mean(sample1) = Mean(sample2)
               /\ Var(sample1) = Var(sample2))
                 => reply.result.stat = Num(0)

\* C19: on a session that holds a table, correlation_analysis fails, with the
\* exportable flag False and nothing changed, exactly when the table has
\* fewer than two numeric columns; when it succeeds the session's table is
\* the rounded correlation matrix of the numeric columns and the result is
\* reported as exportable.  Without a table it fails as well.
C19_CorrelationNeedsTwoNumeric ==
    Handled("correlation") =>
        /\ before.df.isNone => ~reply.success
        /\ ~before.df.isNone =>
              (reply.success <=> Len(NumericCols(before.df)) >= 2)
        /\ ~reply.success =>
              /\ ~reply.result.can_download
              /\ ~reply.can_download
              /\ processor = before
        /\ reply.success =>
              /\ reply.result.can_download
              /\ reply.can_download
              /\ processor.df = corr_matrix(before.df)
              /\ NRows(processor.df) = Len(NumericCols(before.df))
              /\ NCols(processor.df) = Len(NumericCols(before.df))

\* a correlation request refused on a table with exactly one numeric column
C19_Witness ==
    /\ Handled("correlation")
    /\ ~reply.success
    /\ ~before.df.isNone
    /\ Len(NumericCols(before.df)) = 1

\* the session after a request handled alone, by the method of its route
SerialStep(self, request) ==
    IF request = "duplicates" THEN handle_duplicates(self).self
    ELSE IF request = "missing_values"
    THEN handle_missing_values(self, "drop", PyNone).self
    ELSE IF request = "upload"
    THEN load_data_from_base64(self, ConcUpload[1], ConcUpload[2]).self
    ELSE NewProcessor

\* the session after the requests handled one after the other
RECURSIVE RunSerial(_, _)
RunSerial(self, requests) ==
    IF requests = <<>> THEN self
    ELSE RunSerial(SerialStep(self, Head(requests)), Tail(requests))

\* the orders in which n requests can be handled one after the other
Orders(n) == {p \in [1..n -> 1..n] : \A i, j \in 1..n : i # j => p[i] # p[j]}

\* no worker thread is inside a handler
Quiescent == \A t \in Threads : threads[t].pc = "idle"

\* C20: when the worker threads have finished the requests they took, the
\* table and the log are those of some serial order of these requests, and
\* every label in the log is directly followed by the fragment of the same
\* operation.
C20_ConcurrentRequestsSerialisable ==
    Quiescent =>
        /\ \E p \in Orders(Len(taken)) :
              processor = RunSerial(NewProcessor, [i \in 1..Len(taken) |-> taken[p[i]]])
        /\ \A i \in 1..Len(processor.code_history) :
              processor.code_history[i].kind = "label" =>
                  /\ i < Len(processor.code_history)
                  /\ processor.code_history[i + 1].kind = "code"
                  /\ processor.code_history[i + 1].op = processor.code_history[i].op

\* C21: in the Empty state each of the seven operations, whatever its
\* parameters, returns a failure result, and the session stays Empty: no
\* table and an empty log.
C21_EmptyStateOperationsFail ==
    (/\ reply.route = "process"
     /\ reply.operation \in Operations
     /\ before.df.isNone)
        => /\ before.code_history = <<>>
           /\ ~reply.result.success
           /\ ~reply.success
           /\ processor.df = NoneDF
           /\ processor.code_history = <<>>

\* a deduplication asked of a session emptied by a reset
C21_Witness ==
    /\ Handled("duplicates")
    /\ before.df.isNone
    /\ ~reply.success
    /\ ~original.isNone

\* C22: handle_outliers with a method other than iqr and zscore, and
\* standardize_data with a method other than zscore and minmax, on a table
\* with numeric columns, fail and leave the log and the table as they were.
C22_UnknownMethodLeavesLog ==
    (/\ ~before.df.isNone
     /\ NumericCols(before.df) # <<>>
     /\ \/ Handled("outliers") /\ MethodOf("iqr") \notin {"iqr", "zscore"}
        \/ Handled("standardization") /\ MethodOf("zscore") \notin {"zscore", "minmax"})
        => /\ ~reply.result.success
           /\ processor.code_history = before.code_history
           /\ processor.df = before.df

\* C23: the log is empty, or it is the load preamble followed by complete
\* pairs of a label and the code fragment of the same operation.
C23_LogShape ==
    LET h == processor.code_history
    IN h # <<>> =>
          /\ Len(h) >= 3
          /\ SubSeq(h, 1, 3) = LoadPreamble(Filename(h[3].a1.s, h[3].a2.s))
          /\ (Len(h) - 3) % 2 = 0
          /\ \A k \in 1..((Len(h) - 3) \div 2) :
                /\ h[2 * k + 2].kind = "label"
                /\ h[2 * k + 3].kind = "code"
                /\ h[2 * k + 3].op = h[2 * k + 2].op

\* C24: a /process answer with success = False carries can_download = False,
\* for the seven operations and for any other operation name; can_download =
\* True comes only with success = True.
C24_FailureIsNeverExportable ==
    reply.route = "process" =>
        /\ ~reply.success => ~reply.can_download
        /\ reply.can_download => reply.success
        /\ reply.success = reply.result.success

\* an operation name outside the seven: the dispatch leaves can_download at
\* its initial True and the answer carries False
C24_Witness ==
    /\ reply.route = "process"
    /\ reply.operation \notin Operations
    /\ ~reply.success
    /\ reply.result.can_download
    /\ ~reply.can_download

====
